---- MODULE Spec2Model ----
(***************************************************************************)
(* A model of app.py: the shared DownloadProgress record, the progress     *)
(* hook that yt-dlp calls, download_video, the "Start Download" handler    *)
(* with its background worker and foreground polling loop, and the format  *)
(* catalogue built by get_available_formats.                               *)
(*                                                                         *)
(* Three specifications:                                                     *)
(*   Spec        the Start Download handler (worker thread + poller);      *)
(*   FairSpec    Spec with the fairness the Python scheduler gives;        *)
(*   FormatSpec  get_available_formats run on bounded raw format lists.    *)
(*                                                                         *)
(* Modelling notes.                                                        *)
(*  - percentage is a float in the code; here it is the exact rational     *)
(*    <<numerator, denominator>>, so (downloaded / total) * 100 is         *)
(*    <<downloaded * 100, total>>.                                         *)
(*  - None stands for Python's None / a key missing from a dict.           *)
(*  - Python strings that are built or parsed (f"{quality}p", the size     *)
(*    label) are sequences of one-character strings.                       *)
(*  - yt-dlp is the environment: while extract_info runs it may deliver    *)
(*    any progress event, return, or raise.                                *)
(***************************************************************************)
EXTENDS Integers, Sequences, FiniteSets, TLC

VARIABLES
    tracker,     \* the global progress_tracker (DownloadProgress)
    wtag,        \* history: per field, the number of the event that last wrote it (0 = default)
    pc,          \* position of the foreground script ("fg") and of the worker thread
    ev,          \* per thread, the event dict d the running progress_hook was called with
    nEvents,     \* per thread, progress events delivered to its download_video invocation
    result,      \* per thread, the filename its download_video returned
    calls,       \* history: number of download_video invocations started
    prevStatus,  \* history: tracker.status before the last status write of the hook
    shown,       \* what the current render of progress_placeholder shows
    statusMsg,   \* content of status_placeholder
    offered,     \* file handed to st.download_button
    exitStatus,  \* progress_tracker.status as read by the completion check (line 254)
    info,        \* get_available_formats: its argument
    formats,     \* get_available_formats: local list `formats`
    seen_qualities, \* get_available_formats: local set
    fidx,        \* get_available_formats: index of the next element of info['formats']
    fpc          \* get_available_formats: position

dlVars  == <<tracker, wtag, pc, ev, nEvents, result, calls, prevStatus,
             shown, statusMsg, offered, exitStatus>>
fmtVars == <<info, formats, seen_qualities, fidx, fpc>>
vars    == <<tracker, wtag, pc, ev, nEvents, result, calls, prevStatus,
             shown, statusMsg, offered, exitStatus,
             info, formats, seen_qualities, fidx, fpc>>

\* ------------------------------------------------------------------ bounds
MaxEvents == 2
MaxFormats == 4

\* --------------------------------------------------------------- helpers
None == 0 - 1

\* Python's `a or b` on numbers and None
PyOr(a, b) == IF a = None \/ a = 0 THEN b ELSE a

\* d.get(key, 0): the default replaces a missing key
GetOr0(v) == IF v = None THEN 0 ELSE v

\* exact rationals <<n, d>>, d > 0
Pct0 == <<0, 1>>
Pct100 == <<100, 1>>
NoPct == <<0, 0>>
PctEq(p, q) == p[1] * q[2] = q[1] * p[2]
PctInRange(p) == 0 <= p[1] /\ p[1] <= 100 * p[2]

\* ------------------------------------------------- DownloadProgress (9-19)
Fresh ==
    [downloaded_bytes |-> 0, total_bytes |-> 0, speed |-> 0, eta |-> 0,
     percentage |-> Pct0, status |-> "idle"]

Fields == {"downloaded_bytes", "total_bytes", "speed", "eta", "percentage", "status"}
FreshTags == [f \in Fields |-> 0]

\* --------------------------------------------------- progress events (yt-dlp)
Event(st, db, tb, tbe, sp, et) ==
    [status |-> st, downloaded_bytes |-> db, total_bytes |-> tb,
     total_bytes_estimate |-> tbe, speed |-> sp, eta |-> et]

EventSamples ==
    { Event("downloading", 1, 2, None, 1, 1),
      Event("downloading", 2, 2, None, None, 0),
      Event("downloading", 1, None, 4, 1, None),
      Event("downloading", 3, 0, 2, 1, 1),
      Event("downloading", 1, None, None, None, None),
      Event("finished", 2, 2, None, None, None),
      Event("error", None, None, None, None, None) }
NoEvent == Event("none", None, None, None, None, None)

Threads == {"fg", "worker"}
Exts == {"mp4", "webm", "mkv"}

\* --------------------------------------------------- progress_hook (21-41)
\* the value written to progress_tracker.status (lines 26, 38, 41)
ErrorBackToIdle(d) == IF d.status = "error" THEN "idle" ELSE d.status
HookStatusValue(d) == d.status

\* line 27
HookDownloadedValue(d) == GetOr0(d.downloaded_bytes)
\* line 28
HookTotalValue(d) == PyOr(GetOr0(d.total_bytes), GetOr0(d.total_bytes_estimate))
\* line 29
HookSpeedValue(d) == PyOr(GetOr0(d.speed), 0)
\* line 30
HookEtaValue(d) == PyOr(GetOr0(d.eta), 0)

\* lines 32-35, computed from the tracker's own fields
PercentageNoScaling(tr) ==
    IF tr.total_bytes > 0 THEN <<tr.downloaded_bytes, tr.total_bytes>> ELSE Pct0
HookPercentageValue(tr) ==
    IF tr.total_bytes > 0 THEN <<tr.downloaded_bytes * 100, tr.total_bytes>> ELSE Pct0

\* line 39
FinishedKeepsPercentage(tr) == tr.percentage
HookFinishedPercentage(tr) == Pct100

\* the events delivered so far, over both invocations
Seq0 == nEvents["fg"] + nEvents["worker"]

Alive == pc["worker"] \notin {"unstarted", "exited", "crashed"}

\* ------------------------------------------------- download_video (82-111)
\* line 85: progress_tracker = DownloadProgress()
KeepTracker(tr) == tr
ResetTracker(tr) == Fresh

DownloadReset(t) ==
    /\ pc[t] = "dl_reset"
    /\ tracker' = ResetTracker(tracker)
    /\ wtag' = FreshTags
    /\ prevStatus' = "none"
    /\ nEvents' = [nEvents EXCEPT ![t] = 0]
    /\ calls' = calls + 1
    /\ pc' = [pc EXCEPT ![t] = "dl_run"]
    /\ UNCHANGED <<ev, result, shown, statusMsg, offered, exitStatus>>
    /\ UNCHANGED fmtVars

\* line 109: extract_info calls the registered hook with a progress event
LibEmit(t) ==
    /\ pc[t] = "dl_run"
    /\ nEvents[t] < MaxEvents
    /\ \E d \in EventSamples : ev' = [ev EXCEPT ![t] = d]
    /\ nEvents' = [nEvents EXCEPT ![t] = @ + 1]
    /\ pc' = [pc EXCEPT ![t] = "hk_status"]
    /\ UNCHANGED <<tracker, wtag, result, calls, prevStatus, shown, statusMsg,
                   offered, exitStatus>>
    /\ UNCHANGED fmtVars

\* lines 25-26, 37-38, 40-41
HookStatus(t) ==
    /\ pc[t] = "hk_status"
    /\ tracker' = [tracker EXCEPT !.status = HookStatusValue(ev[t])]
    /\ wtag' = [wtag EXCEPT !["status"] = Seq0]
    /\ prevStatus' = tracker.status
    /\ pc' = [pc EXCEPT ![t] =
                CASE ev[t].status = "downloading" -> "hk_down"
                  [] ev[t].status = "finished" -> "hk_pct"
                  [] OTHER -> "hk_ret"]
    /\ UNCHANGED <<ev, nEvents, result, calls, shown, statusMsg, offered, exitStatus>>
    /\ UNCHANGED fmtVars

\* line 27
HookDownloaded(t) ==
    /\ pc[t] = "hk_down"
    /\ tracker' = [tracker EXCEPT !.downloaded_bytes = HookDownloadedValue(ev[t])]
    /\ wtag' = [wtag EXCEPT !["downloaded_bytes"] = Seq0]
    /\ pc' = [pc EXCEPT ![t] = "hk_total"]
    /\ UNCHANGED <<ev, nEvents, result, calls, prevStatus, shown, statusMsg,
                   offered, exitStatus>>
    /\ UNCHANGED fmtVars

\* line 28
HookTotal(t) ==
    /\ pc[t] = "hk_total"
    /\ tracker' = [tracker EXCEPT !.total_bytes = HookTotalValue(ev[t])]
    /\ wtag' = [wtag EXCEPT !["total_bytes"] = Seq0]
    /\ pc' = [pc EXCEPT ![t] = "hk_speed"]
    /\ UNCHANGED <<ev, nEvents, result, calls, prevStatus, shown, statusMsg,
                   offered, exitStatus>>
    /\ UNCHANGED fmtVars

\* line 29
HookSpeed(t) ==
    /\ pc[t] = "hk_speed"
    /\ tracker' = [tracker EXCEPT !.speed = HookSpeedValue(ev[t])]
    /\ wtag' = [wtag EXCEPT !["speed"] = Seq0]
    /\ pc' = [pc EXCEPT ![t] = "hk_eta"]
    /\ UNCHANGED <<ev, nEvents, result, calls, prevStatus, shown, statusMsg,
                   offered, exitStatus>>
    /\ UNCHANGED fmtVars

\* line 30
HookEta(t) ==
    /\ pc[t] = "hk_eta"
    /\ tracker' = [tracker EXCEPT !.eta = HookEtaValue(ev[t])]
    /\ wtag' = [wtag EXCEPT !["eta"] = Seq0]
    /\ pc' = [pc EXCEPT ![t] = "hk_pct"]
    /\ UNCHANGED <<ev, nEvents, result, calls, prevStatus, shown, statusMsg,
                   offered, exitStatus>>
    /\ UNCHANGED fmtVars

\* lines 32-35 (downloading) and line 39 (finished)
HookPercentage(t) ==
    /\ pc[t] = "hk_pct"
    /\ tracker' = [tracker EXCEPT !.percentage =
                     IF ev[t].status = "finished"
                     THEN HookFinishedPercentage(tracker)
                     ELSE HookPercentageValue(tracker)]
    /\ wtag' = [wtag EXCEPT !["percentage"] = Seq0]
    /\ pc' = [pc EXCEPT ![t] = "hk_ret"]
    /\ UNCHANGED <<ev, nEvents, result, calls, prevStatus, shown, statusMsg,
                   offered, exitStatus>>
    /\ UNCHANGED fmtVars

\* progress_hook returns to extract_info
HookReturn(t) ==
    /\ pc[t] = "hk_ret"
    /\ pc' = [pc EXCEPT ![t] = "dl_run"]
    /\ ev' = [ev EXCEPT ![t] = NoEvent]
    /\ UNCHANGED <<tracker, wtag, nEvents, result, calls, prevStatus, shown,
                   statusMsg, offered, exitStatus>>
    /\ UNCHANGED fmtVars

\* line 110: prepare_filename(info).replace(".webm", ".mp4").replace(".mkv", ".mp4")
NormalizeExt(e) == IF e \in {"webm", "mkv"} THEN "mp4" ELSE e

\* lines 109-111: extract_info returns and download_video returns (filename, info).
\* The worker's lambda drops the value (line 224); the thread ends.
LibReturn(t) ==
    /\ pc[t] = "dl_run"
    /\ \E e \in Exts :
         result' = [result EXCEPT ![t] = [call |-> calls, ext |-> NormalizeExt(e)]]
    /\ pc' = [pc EXCEPT ![t] = IF t = "worker" THEN "exited" ELSE "success"]
    /\ UNCHANGED <<tracker, wtag, ev, nEvents, calls, prevStatus, shown, statusMsg,
                   offered, exitStatus>>
    /\ UNCHANGED fmtVars

\* line 109: extract_info raises; nothing in download_video catches it.
\* In the worker the exception ends the thread (no handler in the lambda, line 224);
\* in the foreground it reaches the handler of line 269.
LibRaise(t) ==
    /\ pc[t] = "dl_run"
    /\ pc' = [pc EXCEPT ![t] = IF t = "worker" THEN "crashed" ELSE "except"]
    /\ UNCHANGED <<tracker, wtag, ev, nEvents, result, calls, prevStatus, shown,
                   statusMsg, offered, exitStatus>>
    /\ UNCHANGED fmtVars

\* ------------------------------------- "Start Download" handler (218-270)
Blank ==
    [status |-> "none", bar |-> NoPct, percentage |-> NoPct, speed |-> None,
     eta |-> None, downloaded_bytes |-> None, total_bytes |-> None,
     tpct |-> None, tdown |-> None, ttotal |-> None]

\* lines 218-229: the button is pressed and the thread started
StartDownload ==
    /\ pc["fg"] = "button"
    /\ pc' = [pc EXCEPT !["fg"] = "loop", !["worker"] = "dl_reset"]
    /\ UNCHANGED <<tracker, wtag, ev, nEvents, result, calls, prevStatus, shown,
                   statusMsg, offered, exitStatus>>
    /\ UNCHANGED fmtVars

\* line 232: while download_thread.is_alive() or progress_tracker.status == "downloading"
LoopCondition == Alive \/ tracker.status = "downloading"

LoopTest ==
    /\ pc["fg"] = "loop"
    /\ IF LoopCondition
       THEN /\ pc' = [pc EXCEPT !["fg"] = "r_status"]
            /\ shown' = Blank
       ELSE /\ pc' = [pc EXCEPT !["fg"] = "check"]
            /\ UNCHANGED shown
    /\ UNCHANGED <<tracker, wtag, ev, nEvents, result, calls, prevStatus, statusMsg,
                   offered, exitStatus>>
    /\ UNCHANGED fmtVars

\* line 234
RenderStatus ==
    /\ pc["fg"] = "r_status"
    /\ shown' = [shown EXCEPT !.status = tracker.status]
    /\ pc' = [pc EXCEPT !["fg"] =
                IF tracker.status = "downloading" THEN "r_bar" ELSE "sleep"]
    /\ UNCHANGED <<tracker, wtag, ev, nEvents, result, calls, prevStatus, statusMsg,
                   offered, exitStatus>>
    /\ UNCHANGED fmtVars

\* line 236: st.progress(progress_tracker.percentage / 100); Streamlit raises
\* StreamlitAPIException for a float outside [0.0, 1.0], caught at line 269
RenderBar ==
    /\ pc["fg"] = "r_bar"
    /\ IF PctInRange(tracker.percentage)
       THEN /\ shown' = [shown EXCEPT !.bar = tracker.percentage]
            /\ pc' = [pc EXCEPT !["fg"] = "r_metric"]
       ELSE /\ UNCHANGED shown
            /\ pc' = [pc EXCEPT !["fg"] = "except"]
    /\ UNCHANGED <<tracker, wtag, ev, nEvents, result, calls, prevStatus, statusMsg,
                   offered, exitStatus>>
    /\ UNCHANGED fmtVars

\* line 241
RenderMetric ==
    /\ pc["fg"] = "r_metric"
    /\ shown' = [shown EXCEPT !.percentage = tracker.percentage,
                              !.tpct = wtag["percentage"]]
    /\ pc' = [pc EXCEPT !["fg"] = "r_speed"]
    /\ UNCHANGED <<tracker, wtag, ev, nEvents, result, calls, prevStatus, statusMsg,
                   offered, exitStatus>>
    /\ UNCHANGED fmtVars

\* line 243
RenderSpeed ==
    /\ pc["fg"] = "r_speed"
    /\ shown' = [shown EXCEPT !.speed = tracker.speed]
    /\ pc' = [pc EXCEPT !["fg"] = "r_eta"]
    /\ UNCHANGED <<tracker, wtag, ev, nEvents, result, calls, prevStatus, statusMsg,
                   offered, exitStatus>>
    /\ UNCHANGED fmtVars

\* line 245
RenderEta ==
    /\ pc["fg"] = "r_eta"
    /\ shown' = [shown EXCEPT !.eta = tracker.eta]
    /\ pc' = [pc EXCEPT !["fg"] = "r_total"]
    /\ UNCHANGED <<tracker, wtag, ev, nEvents, result, calls, prevStatus, statusMsg,
                   offered, exitStatus>>
    /\ UNCHANGED fmtVars

\* line 248: if progress_tracker.total_bytes > 0
RenderTotalTest ==
    /\ pc["fg"] = "r_total"
    /\ pc' = [pc EXCEPT !["fg"] =
                IF tracker.total_bytes > 0 THEN "r_bytes_d" ELSE "sleep"]
    /\ UNCHANGED <<tracker, wtag, ev, nEvents, result, calls, prevStatus, shown,
                   statusMsg, offered, exitStatus>>
    /\ UNCHANGED fmtVars

\* line 249, first read: progress_tracker.downloaded_bytes
RenderDownloaded ==
    /\ pc["fg"] = "r_bytes_d"
    /\ shown' = [shown EXCEPT !.downloaded_bytes = tracker.downloaded_bytes,
                              !.tdown = wtag["downloaded_bytes"]]
    /\ pc' = [pc EXCEPT !["fg"] = "r_bytes_t"]
    /\ UNCHANGED <<tracker, wtag, ev, nEvents, result, calls, prevStatus, statusMsg,
                   offered, exitStatus>>
    /\ UNCHANGED fmtVars

\* line 249, second read: progress_tracker.total_bytes
RenderTotal ==
    /\ pc["fg"] = "r_bytes_t"
    /\ shown' = [shown EXCEPT !.total_bytes = tracker.total_bytes,
                              !.ttotal = wtag["total_bytes"]]
    /\ pc' = [pc EXCEPT !["fg"] = "sleep"]
    /\ UNCHANGED <<tracker, wtag, ev, nEvents, result, calls, prevStatus, statusMsg,
                   offered, exitStatus>>
    /\ UNCHANGED fmtVars

\* line 251
Sleep ==
    /\ pc["fg"] = "sleep"
    /\ pc' = [pc EXCEPT !["fg"] = "loop"]
    /\ UNCHANGED <<tracker, wtag, ev, nEvents, result, calls, prevStatus, shown,
                   statusMsg, offered, exitStatus>>
    /\ UNCHANGED fmtVars

\* lines 254-255: on "finished", download_video(video_url, selected_quality) again
AfterLoopNoSecondCall(st) == IF st = "finished" THEN "success" ELSE "done"
AfterLoop(st) == IF st = "finished" THEN "dl_reset" ELSE "done"

PostLoopCheck ==
    /\ pc["fg"] = "check"
    /\ exitStatus' = tracker.status
    /\ pc' = [pc EXCEPT !["fg"] = AfterLoop(tracker.status)]
    /\ UNCHANGED <<tracker, wtag, ev, nEvents, result, calls, prevStatus, shown,
                   statusMsg, offered>>
    /\ UNCHANGED fmtVars

\* line 256
ShowSuccess ==
    /\ pc["fg"] = "success"
    /\ statusMsg' = "success"
    /\ pc' = [pc EXCEPT !["fg"] = "offer"]
    /\ UNCHANGED <<tracker, wtag, ev, nEvents, result, calls, prevStatus, shown,
                   offered, exitStatus>>
    /\ UNCHANGED fmtVars

\* lines 259-267: the file is offered when os.path.exists(file_path)
OfferFile ==
    /\ pc["fg"] = "offer"
    /\ \E exists \in BOOLEAN :
         offered' = IF exists THEN result["fg"] ELSE offered
    /\ pc' = [pc EXCEPT !["fg"] = "done"]
    /\ UNCHANGED <<tracker, wtag, ev, nEvents, result, calls, prevStatus, shown,
                   statusMsg, exitStatus>>
    /\ UNCHANGED fmtVars

\* lines 269-270
ShowError ==
    /\ pc["fg"] = "except"
    /\ statusMsg' = "error"
    /\ pc' = [pc EXCEPT !["fg"] = "done"]
    /\ UNCHANGED <<tracker, wtag, ev, nEvents, result, calls, prevStatus, shown,
                   offered, exitStatus>>
    /\ UNCHANGED fmtVars

NoFile == [call |-> 0, ext |-> "none"]
NoInfo == [hasFormats |-> FALSE, formats |-> <<>>]

DlInit ==
    /\ tracker = Fresh
    /\ wtag = FreshTags
    /\ pc = [t \in Threads |-> IF t = "fg" THEN "button" ELSE "unstarted"]
    /\ ev = [t \in Threads |-> NoEvent]
    /\ nEvents = [t \in Threads |-> 0]
    /\ result = [t \in Threads |-> NoFile]
    /\ calls = 0
    /\ prevStatus = "none"
    /\ shown = Blank
    /\ statusMsg = "none"
    /\ offered = NoFile
    /\ exitStatus = "unread"

FmtIdle ==
    /\ info = NoInfo
    /\ formats = <<>>
    /\ seen_qualities = {}
    /\ fidx = 1
    /\ fpc = "idle"

Init == DlInit /\ FmtIdle

Foreground ==
    \/ StartDownload
    \/ LoopTest
    \/ RenderStatus
    \/ RenderBar
    \/ RenderMetric
    \/ RenderSpeed
    \/ RenderEta
    \/ RenderTotalTest
    \/ RenderDownloaded
    \/ RenderTotal
    \/ Sleep
    \/ PostLoopCheck
    \/ ShowSuccess
    \/ OfferFile
    \/ ShowError

Download(t) ==
    \/ DownloadReset(t)
    \/ LibEmit(t)
    \/ HookStatus(t)
    \/ HookDownloaded(t)
    \/ HookTotal(t)
    \/ HookSpeed(t)
    \/ HookEta(t)
    \/ HookPercentage(t)
    \/ HookReturn(t)
    \/ LibReturn(t)
    \/ LibRaise(t)

Next == Foreground \/ Download("fg") \/ Download("worker")

Spec == Init /\ [][Next]_vars

\* the Python scheduler lets every runnable thread run, and time.sleep returns
FairSpec == Spec /\ WF_vars(Foreground) /\ WF_vars(Download("worker"))

\* ------------------------------------------ get_available_formats (55-80)
MaxHeight == 1080
NoneStr == "None"

\* f.get(key, '') on a string field
GetStr(v) == IF v = NoneStr THEN "" ELSE v

Format(vc, h, e, n, fs) ==
    [vcodec |-> vc, height |-> h, ext |-> e, format_note |-> n, filesize |-> fs]

FormatSamples ==
    { Format("none", None, "m4a", "audio only", 3 * 1024 * 1024),
      Format("avc1", 720, "mp4", "720p", 5 * 1024 * 1024 + 1),
      Format("vp9", 720, "webm", NoneStr, None),
      Format("avc1", 1080, "mp4", "1080p", 0),
      Format("vp9", 2160, "webm", "2160p", 9 * 1024 * 1024),
      Format("avc1", 0, "mp4", "", None),
      Format("none", 360, "mp4", "360p", None),
      Format(NoneStr, 360, NoneStr, "360p", 500000) }

RECURSIVE SeqsUpTo(_)
SeqsUpTo(n) ==
    IF n = 0 THEN {<<>>}
    ELSE SeqsUpTo(n - 1) \cup
         {Append(s, f) : s \in {q \in SeqsUpTo(n - 1) : Len(q) = n - 1}, f \in FormatSamples}

Infos ==
    {NoInfo} \cup {[hasFormats |-> TRUE, formats |-> s] : s \in SeqsUpTo(MaxFormats)}

\* str(n) for n >= 0, as a sequence of characters
DigitChars == <<"0", "1", "2", "3", "4", "5", "6", "7", "8", "9">>
RECURSIVE IntToStr(_)
IntToStr(n) ==
    IF n < 10 THEN <<DigitChars[n + 1]>>
    ELSE IntToStr(n \div 10) \o <<DigitChars[(n % 10) + 1]>>

\* int(s) for a sequence of digit characters
DigitOf(c) == CHOOSE d \in 0..9 : DigitChars[d + 1] = c
RECURSIVE StrToInt(_)
StrToInt(s) ==
    IF Len(s) = 0 THEN 0
    ELSE 10 * StrToInt(SubSeq(s, 1, Len(s) - 1)) + DigitOf(s[Len(s)])

\* s.replace(c, '')
StrRemove(s, c) == SelectSeq(s, LAMBDA x : x # c)

\* ext.upper()
Upper(e) ==
    CASE e = "mp4" -> "MP4"
      [] e = "webm" -> "WEBM"
      [] e = "m4a" -> "M4A"
      [] e = "mkv" -> "MKV"
      [] OTHER -> e

\* line 62: f.get('vcodec') != 'none' and f.get('height')
HasVideoAndHeight(f) == f.vcodec # "none" /\ f.height # None /\ f.height # 0

\* line 68: quality not in seen_qualities and quality <= 1080
KeepFormatNoDedup(f, seen) == f.height <= MaxHeight
KeepFormat(f, seen) == f.height \notin seen /\ f.height <= MaxHeight

\* line 70
SizeLabel(fs) ==
    IF fs = None \/ fs = 0 THEN <<>>
    ELSE <<" (">> \o IntToStr(fs \div (1024 * 1024)) \o <<" MB)">>

\* lines 71-76
FormatEntry(f) ==
    [quality |-> IntToStr(f.height) \o <<"p">>,
     format |-> Upper(GetStr(f.ext)),
     note |-> GetStr(f.format_note),
     size |-> SizeLabel(f.filesize)]

\* line 79: the sort key int(x['quality'].replace('p', ''))
SortKey(x) == StrToInt(StrRemove(x.quality, "p"))

\* line 79: list.sort(key=..., reverse=True), a stable sort
RECURSIVE InsertDesc(_, _)
InsertDesc(sorted, x) ==
    IF sorted = <<>> THEN <<x>>
    ELSE IF SortKey(Head(sorted)) >= SortKey(x)
         THEN <<Head(sorted)>> \o InsertDesc(Tail(sorted), x)
         ELSE <<x>> \o sorted
RECURSIVE SortFrom(_, _)
SortFrom(acc, s) ==
    IF s = <<>> THEN acc ELSE SortFrom(InsertDesc(acc, Head(s)), Tail(s))
Unsorted(s) == s
SortDesc(s) == SortFrom(<<>>, s)

\* lines 61-76: one iteration of the loop over info['formats']
FormatsLoopStep ==
    /\ fpc = "loop"
    /\ info.hasFormats
    /\ fidx <= Len(info.formats)
    /\ LET f == info.formats[fidx] IN
         IF HasVideoAndHeight(f) /\ KeepFormat(f, seen_qualities)
         THEN /\ seen_qualities' = seen_qualities \cup {f.height}
              /\ formats' = Append(formats, FormatEntry(f))
         ELSE UNCHANGED <<seen_qualities, formats>>
    /\ fidx' = fidx + 1
    /\ UNCHANGED <<info, fpc>>
    /\ UNCHANGED dlVars

\* lines 60 (no 'formats' key) and 79-80: sort and return
FormatsSortReturn ==
    /\ fpc = "loop"
    /\ ~info.hasFormats \/ fidx > Len(info.formats)
    /\ formats' = SortDesc(formats)
    /\ fpc' = "returned"
    /\ UNCHANGED <<info, seen_qualities, fidx>>
    /\ UNCHANGED dlVars

\* lines 57-58, with the argument drawn from the bounded inputs
FormatInit ==
    /\ DlInit
    /\ info \in Infos
    /\ formats = <<>>
    /\ seen_qualities = {}
    /\ fidx = 1
    /\ fpc = "loop"

FormatNext == FormatsLoopStep \/ FormatsSortReturn

FormatSpec == FormatInit /\ [][FormatNext]_vars

\* ================================================================ claims

\* C1 (as stated): between two resets the hook changes status only along
\* idle->downloading, downloading->finished and downloading->error.
AllowedTransitions ==
    { <<"idle", "downloading">>, <<"downloading", "finished">>,
      <<"downloading", "error">> }
C1_OnlyForwardTransitions ==
    [][ \/ calls' # calls
        \/ tracker'.status = tracker.status
        \/ <<tracker.status, tracker'.status>> \in AllowedTransitions ]_vars

\* C1 (amended): between two resets status changes only in the hook's status
\* write, which sets it to the status of the event being processed (downloading,
\* finished or error) whatever it was before; no progress event sets it to idle.
C1_StatusMirrorsEvent ==
    [][ \/ calls' # calls
        \/ tracker'.status = tracker.status
        \/ \E t \in Threads :
             /\ pc[t] = "hk_status"
             /\ ev[t].status \in {"downloading", "finished", "error"}
             /\ tracker'.status = ev[t].status ]_vars

\* C1 witness: a finished download is set back to downloading by a later event
C1_Witness == prevStatus = "finished" /\ tracker.status = "downloading"

\* C2: a session that ended after the worker's download_video raised shows
\* an error message.
C2_FailureIsDisplayed ==
    (pc["fg"] = "done" /\ pc["worker"] = "crashed") => statusMsg = "error"

\* C3: percentage always lies in [0, 100].
C3_PercentageInRange == PctInRange(tracker.percentage)

\* C4: when progress_hook returns from a 'finished' event, status is finished
\* and percentage is 100.0.
C4_FinishedSets100 ==
    \A t \in Threads :
        (pc[t] = "hk_ret" /\ ev[t].status = "finished")
            => (tracker.status = "finished" /\ tracker.percentage = Pct100)

\* C4 witness: the finished event arrives in the state right after construction
C4_Witness ==
    \E t \in Threads :
        /\ pc[t] = "hk_ret"
        /\ ev[t].status = "finished"
        /\ prevStatus = "idle"
        /\ tracker.total_bytes = 0
        /\ tracker.downloaded_bytes = 0

AllZeroIdle(tr) ==
    /\ tr.status = "idle"
    /\ tr.downloaded_bytes = 0
    /\ tr.total_bytes = 0
    /\ tr.speed = 0
    /\ tr.eta = 0
    /\ PctEq(tr.percentage, Pct0)

\* C5: the tracker is idle with all numeric fields zero after construction and
\* in every download_video invocation until its first progress event.
C5_ResetBeforeEvents ==
    /\ calls = 0 => AllZeroIdle(tracker)
    /\ \A t \in Threads :
         (pc[t] = "dl_run" /\ nEvents[t] = 0) => AllZeroIdle(tracker)

\* C5 witness: the second invocation has started after the first one wrote fields
C5_Witness ==
    /\ pc["fg"] = "dl_run"
    /\ nEvents["fg"] = 0
    /\ nEvents["worker"] > 0
    /\ exitStatus = "finished"

PostLoop == {"dl_reset", "dl_run", "hk_status", "hk_down", "hk_total", "hk_speed",
             "hk_eta", "hk_pct", "hk_ret", "success", "offer", "except", "done"}

\* C8, for the outcome in which the worker thread ends by an exception: once
\* the worker is dead the polling loop eventually ends (control reaches the
\* completion check or leaves the loop).
C8_LoopEndsAfterWorker ==
    (pc["worker"] = "crashed") ~> (pc["fg"] \in PostLoop \cup {"check"})

\* C9: success and the offered file come only from a second, foreground
\* invocation made when the loop exits with status finished; any other exit
\* status makes no second invocation and offers no file.
C9_SecondInvocation ==
    /\ calls <= 2
    /\ statusMsg = "success" => (calls = 2 /\ result["fg"].call = 2)
    /\ offered # NoFile =>
         (offered = result["fg"] /\ offered.call = 2 /\ statusMsg = "success")
    /\ (exitStatus = "finished" /\ pc["fg"] # "dl_reset") => calls = 2
    /\ exitStatus \notin {"unread", "finished"} =>
         (calls = 1 /\ offered = NoFile /\ statusMsg = "none" /\ pc["fg"] = "done")

\* C9 witness: the file of the second invocation is offered, the worker's dropped
C9_Witness ==
    /\ offered # NoFile
    /\ offered.call = 2
    /\ result["worker"].call = 1
    /\ pc["fg"] = "done"

\* C10: a render (status downloading, byte counts shown) whose percentage is
\* not downloaded / total * 100 has read fields written by different events.
RenderComplete == pc["fg"] = "sleep" /\ shown.total_bytes # None
ExpectedPct(s) ==
    IF s.total_bytes > 0 THEN <<s.downloaded_bytes * 100, s.total_bytes>> ELSE Pct0
Inconsistent(s) == ~PctEq(s.percentage, ExpectedPct(s))
Mixed(s) == ~(s.tpct = s.tdown /\ s.tdown = s.ttotal)
C10_InconsistentOnlyWhenMixed ==
    (RenderComplete /\ Inconsistent(shown)) => Mixed(shown)

\* C10 witness: one render shows the byte counts of the newer progress event
\* with the percentage of the older one
C10_Witness ==
    /\ RenderComplete
    /\ shown.status = "downloading"
    /\ shown.tpct >= 1
    /\ shown.tdown > shown.tpct
    /\ shown.ttotal = shown.tdown
    /\ shown.total_bytes > 0
    /\ Inconsistent(shown)

\* ---- get_available_formats
Heights == [i \in 1..Len(formats) |-> SortKey(formats[i])]

NamedToQualify(f) == f.vcodec # "none" /\ f.height # None /\ f.height <= MaxHeight

\* C6: the returned list is strictly descending by height, every height is at
\* most 1080, and it is empty when nothing qualifies or 'formats' is missing.
C6_SortedCapped ==
    fpc = "returned" =>
        /\ \A i, j \in 1..Len(formats) : i < j => Heights[i] > Heights[j]
        /\ \A i \in 1..Len(formats) : Heights[i] <= MaxHeight
        /\ (~info.hasFormats \/ \A i \in 1..Len(info.formats) :
                                   ~NamedToQualify(info.formats[i]))
             => formats = <<>>

\* C6 witness: an input in ascending order with a 2160 entry yields two entries
C6_Witness ==
    /\ fpc = "returned"
    /\ Len(formats) = 2
    /\ Len(info.formats) = 3
    /\ info.formats[1].height = 720
    /\ info.formats[2].height = 1080
    /\ info.formats[3].height = 2160

CatalogMatches(Q) ==
    LET in == info.formats
        Hs == {in[i].height : i \in Q}
        First(h) == CHOOSE i \in Q :
                        in[i].height = h /\ \A j \in Q : in[j].height = h => i <= j
    IN /\ Len(formats) = Cardinality(Hs)
       /\ \A h \in Hs :
            /\ Cardinality({k \in 1..Len(formats) :
                              formats[k].quality = IntToStr(h) \o <<"p">>}) = 1
            /\ \E k \in 1..Len(formats) :
                 /\ formats[k].quality = IntToStr(h) \o <<"p">>
                 /\ formats[k].format = Upper(GetStr(in[First(h)].ext))
                 /\ formats[k].note = GetStr(in[First(h)].format_note)
                 /\ formats[k].size = SizeLabel(in[First(h)].filesize)

\* C7 (as stated): exactly one entry per distinct height <= 1080 among the
\* formats with a video track and a present height, taken from the first such.
C7_OnePerPresentHeight ==
    (fpc = "returned" /\ info.hasFormats) =>
        CatalogMatches({i \in 1..Len(info.formats) : NamedToQualify(info.formats[i])})

\* C7 (amended): exactly one entry per distinct height <= 1080 among the formats
\* with a video track and a present, non-zero height, taken from the first such.
C7_OnePerNonZeroHeight ==
    (fpc = "returned" /\ info.hasFormats) =>
        CatalogMatches({i \in 1..Len(info.formats) :
                          NamedToQualify(info.formats[i]) /\ info.formats[i].height # 0})

\* C7 witness: heights [720, 1080, 720, 2160] give 1080p then the first 720p
C7_Witness ==
    /\ fpc = "returned"
    /\ info.hasFormats
    /\ Len(info.formats) = 4
    /\ info.formats[1] = Format("avc1", 720, "mp4", "720p", 5 * 1024 * 1024 + 1)
    /\ info.formats[2].height = 1080
    /\ info.formats[3] = Format("vp9", 720, "webm", NoneStr, None)
    /\ info.formats[4].height = 2160
    /\ Len(formats) = 2
    /\ formats[1].quality = <<"1", "0", "8", "0", "p">>
    /\ formats[2] = [quality |-> <<"7", "2", "0", "p">>, format |-> "MP4",
                     note |-> "720p", size |-> <<" (", "5", " MB)">>]

====
